---- MODULE Spec2Model ----
(***************************************************************************)
(* The task store (useTaskStore), the status poller (useTaskPolling) and   *)
(* the submission flow (NoteForm.onSubmit) of VideoNote's frontend.        *)
(*                                                                         *)
(* JavaScript values are modelled as records, so that values of different  *)
(* JavaScript types stay comparable: a string s is [str |-> s], an array   *)
(* is [arr |-> <<...>>] and undefined is Undefined.  Strings the code      *)
(* takes apart (URLs, titles, model names) are sequences of characters.    *)
(* A patch object is a record whose DOMAIN is the keys the object has.     *)
(***************************************************************************)
EXTENDS Integers, Sequences, FiniteSets, TLC

VARIABLES
  tasks,          \* TaskStore.tasks: the task list, newest first
  currentTaskId,  \* TaskStore.currentTaskId (Null or a task id)
  uuidSeq,        \* number of task ids uuidv4() has issued
  verSeq,         \* number of version ids uuidv4() has issued
  reqSeq,         \* number of requests sent to the backend
  budget,         \* number of requests the behaviour may send
  timer,          \* the interval of useTaskPolling: "set" or "cleared"
  ticks,          \* poller ticks whose loop is suspended in `await get_task_status`
  retries,        \* retryTask calls suspended in `await generateNote`
  flows,          \* onSubmit calls suspended in `await generateNote`
  deletes,        \* delete_task requests awaiting their answer
  applied,        \* history: per task, the plain-string updates applied so far
  last            \* history: the updateTaskContent call of the last step, if any

vars == <<tasks, currentTaskId, uuidSeq, verSeq, reqSeq, budget, timer, ticks, retries,
          flows, deletes, applied, last>>

----------------------------------------------------------------------------
(* Bounds of the model *)

\* the number of requests the frontend sends to the backend
MaxRequests == 3

\* the number of lookups the poller sends when it is checked on its own
MaxLookups == 4

\* the number of versions up to which the backend may still answer that it is
\* at work, where the poller runs for good
MaxVersions == 2

\* the number of lookups of one window, where the poller runs for good
MaxWindow == 3

\* the number of tasks added, where addPendingTask is checked on its own
MaxTitles == 2

\* the number of calls, where updateTaskContent is checked on its own
MaxUpdates == 2

\* the number of requests, where lookups and retries meet removals
MaxAsync == 3

\* the number of tasks in the stores normalizeTitles is applied to
MaxNormalize == 2

----------------------------------------------------------------------------
(* JavaScript values *)

Null == [null |-> TRUE]
Undefined == [undefined |-> TRUE]
\* a string, as the sequence of its characters
Str(chars) == [str |-> chars]
\* an array
Arr(elems) == [arr |-> elems]
EmptyString == Str(<<>>)

IsString(v) == "str" \in DOMAIN v
IsArray(v) == "arr" \in DOMAIN v

\* JavaScript truthiness: false for undefined, null and '', true for
\* non-empty strings, arrays and objects
Truthy(v) ==
  /\ v # Undefined
  /\ v # Null
  /\ v # EmptyString

\* a || b
Or(a, b) == IF Truthy(a) THEN a ELSE b

\* obj.key: Undefined when the object has no such key
Field(obj, key) == IF key \in DOMAIN obj THEN obj[key] ELSE Undefined

\* { ...a, ...b }: the keys of both, b's value where b has the key
Spread(a, b) ==
  [k \in DOMAIN a \cup DOMAIN b |-> IF k \in DOMAIN b THEN b[k] ELSE a[k]]

----------------------------------------------------------------------------
(* String operations of the title derivation *)

\* index of the last occurrence of character c in chars, 0 when there is none
LastIndexOf(chars, c) ==
  LET hits == {i \in 1..Len(chars) : chars[i] = c}
  IN IF hits = {} THEN 0 ELSE CHOOSE i \in hits : \A j \in hits : j <= i

\* u.split('/').pop() || u
LastSegment(u) ==
  LET p == LastIndexOf(u.str, "/")
      seg == SubSeq(u.str, p + 1, Len(u.str))
  IN Or(Str(seg), u)

\* name.replace(/\.[^.]+$/, ''): drops a final dot and the one or more
\* non-dot characters after it
StripExtension(name) ==
  LET p == LastIndexOf(name.str, ".")
  IN IF p > 0 /\ p < Len(name.str) THEN Str(SubSeq(name.str, 1, p - 1)) ELSE name

\* the filename of a URL without its extension (lines 93-97 and 248-250)
FileTitle(video_url) == StripExtension(LastSegment(video_url))

\* the fixed placeholder title of a task with no derivable title
Placeholder == Str(<<"untitled">>)

\* the title addPendingTask gives a new task
DeriveTitle(formData) ==
  LET fromUrl ==
        IF Truthy(formData) /\ Truthy(Field(formData, "video_url"))
        THEN FileTitle(formData.video_url)
        ELSE EmptyString
      title ==
        IF Truthy(formData) /\ ~Truthy(fromUrl)
        THEN Or(Field(formData, "title"), Or(Field(formData, "model_name"), EmptyString))
        ELSE fromUrl
  IN Or(title, Placeholder)

----------------------------------------------------------------------------------------------------------------------------------------
(* The store (useTaskStore).  Each operation is the function it passes to
   zustand's set(): from the state to the new values of the keys it sets. *)

\* v4 of uuid: the n-th identifier issued; identifiers never repeat
\* a uuidv4 that returns the same id at every call
uuidv4Constant(n) == [uuid |-> 1]

uuidv4(n) == [uuid |-> n]

\* position of the first task with this id, 0 when there is none
TaskIndex(ts, id) ==
  LET hits == {i \in 1..Len(ts) : ts[i].id = id}
  IN IF hits = {} THEN 0 ELSE CHOOSE i \in hits : \A j \in hits : i <= j

\* tasks.find(task => task.id === id)
FindTask(ts, id) == IF TaskIndex(ts, id) = 0 THEN Undefined ELSE ts[TaskIndex(ts, id)]

\* tasks.filter(task => task.id !== id)
RECURSIVE FilterOut(_, _)
FilterOut(ts, id) ==
  IF ts = <<>> THEN <<>>
  ELSE IF Head(ts).id # id THEN <<Head(ts)>> \o FilterOut(Tail(ts), id)
  ELSE FilterOut(Tail(ts), id)

EmptyTranscript ==
  [full_text |-> EmptyString, language |-> EmptyString, segments |-> <<>>]

\* the task object addPendingTask builds
NewTask(taskId, platform, formData, date) ==
  [ formData |-> formData,
    id |-> taskId,
    status |-> "PENDING",
    markdown |-> EmptyString,
    platform |-> platform,
    transcript |-> EmptyTranscript,
    createdAt |-> date,
    audioMeta |-> [ title |-> DeriveTitle(formData),
                    video_id |-> EmptyString,
                    platform |-> EmptyString ] ]

\* an addPendingTask that puts the new task after the others
addPendingTaskLast(state, taskId, platform, formData, date) ==
  [ tasks |-> state.tasks \o <<NewTask(taskId, platform, formData, date)>>,
    currentTaskId |-> taskId ]

addPendingTask(state, taskId, platform, formData, date) ==
  [ tasks |-> <<NewTask(taskId, platform, formData, date)>> \o state.tasks,
    currentTaskId |-> taskId ]

\* a version that carries no style and no model name
VersionUnstyled(task, n, content, date) ==
  [ ver_id |-> [task |-> task.id, uuid |-> n],
    content |-> content,
    style |-> EmptyString,
    model_name |-> EmptyString,
    created_at |-> date ]

\* a version object of updateTaskContent; n is the uuid drawn for its ver_id
Version(task, n, content, date) ==
  [ ver_id |-> [task |-> task.id, uuid |-> n],
    content |-> content,
    style |-> Or(Field(task.formData, "style"), EmptyString),
    model_name |-> Or(Field(task.formData, "model_name"), EmptyString),
    created_at |-> date ]

\* data.status === status, false when data has no status
HasStatus(data, status) == "status" \in DOMAIN data /\ data.status = status

\* task.status === 'SUCCESS' && data.status === 'SUCCESS'
AlreadySuccess(task, data) == task.status = "SUCCESS" /\ HasStatus(data, "SUCCESS")

\* typeof data.markdown === 'string'
PlainMarkdown(data) == IsString(Field(data, "markdown"))

\* a plain-string branch that replaces the previous markdown
updatedMarkdownOverwrite(task, data, seq, date) ==
  <<Version(task, seq + 1, data.markdown, date)>>

\* a plain-string branch that puts the new version last
updatedMarkdownAppend(task, data, seq, date) ==
  LET prev == task.markdown
      newVersion == Version(task, seq + 1, data.markdown, date)
  IN IF IsArray(prev) THEN prev.arr \o <<newVersion>>
     ELSE IF Truthy(prev) THEN <<Version(task, seq + 2, prev, date), newVersion>>
     ELSE <<newVersion>>

\* the list the plain-string branch builds from the previous markdown
updatedMarkdown(task, data, seq, date) ==
  LET prev == task.markdown
      newVersion == Version(task, seq + 1, data.markdown, date)
  IN IF IsArray(prev) THEN <<newVersion>> \o prev.arr
     ELSE IF Truthy(prev) THEN <<newVersion, Version(task, seq + 2, prev, date)>>
     ELSE <<newVersion>>

\* an updateTask that stamps the task with the date of the update
updateTaskRestamped(task, data, seq, date) ==
  IF AlreadySuccess(task, data) THEN task
  ELSE IF PlainMarkdown(data)
  THEN Spread(Spread(task, data), [ markdown |-> Arr(updatedMarkdown(task, data, seq, date)),
                                    createdAt |-> date ])
  ELSE Spread(Spread(task, data), [createdAt |-> date])

\* an updateTask that keeps a finished task as it is, FAILED as well as
\* SUCCESS
updateTaskKeepsFinished(task, data, seq, date) ==
  IF AlreadySuccess(task, data) \/ task.status = "FAILED" THEN task
  ELSE IF PlainMarkdown(data)
  THEN Spread(Spread(task, data), [markdown |-> Arr(updatedMarkdown(task, data, seq, date))])
  ELSE Spread(task, data)

\* an updateTask that wraps whatever markdown the patch carries in a version
updateTaskWrapsAny(task, data, seq, date) ==
  IF AlreadySuccess(task, data) THEN task
  ELSE IF "markdown" \in DOMAIN data
  THEN Spread(Spread(task, data), [markdown |-> Arr(updatedMarkdown(task, data, seq, date))])
  ELSE Spread(task, data)

\* an updateTaskContent that puts a task with the patch's fields at the head
\* of the list when no task has the id
updateTaskContentUpsert(state, id, data, seq, date) ==
  IF FindTask(state.tasks, id) = Undefined
  THEN [tasks |-> <<Spread([id |-> id], data)>> \o state.tasks]
  ELSE [ tasks |-> [i \in 1..Len(state.tasks) |->
                      IF state.tasks[i].id # id THEN state.tasks[i]
                      ELSE Spread(state.tasks[i], data)] ]

\* updateTask without the early return for SUCCESS on SUCCESS
updateTaskUnguarded(task, data, seq, date) ==
  IF PlainMarkdown(data)
  THEN Spread(Spread(task, data), [markdown |-> Arr(updatedMarkdown(task, data, seq, date))])
  ELSE Spread(task, data)

\* the callback of tasks.map in updateTaskContent, for the task with the id
updateTask(task, data, seq, date) ==
  IF AlreadySuccess(task, data) THEN task
  ELSE IF PlainMarkdown(data)
  THEN Spread(Spread(task, data), [markdown |-> Arr(updatedMarkdown(task, data, seq, date))])
  ELSE Spread(task, data)

\* seq: the number of version uuids drawn so far; date: new Date()
updateTaskContent(state, id, data, seq, date) ==
  [ tasks |-> [i \in 1..Len(state.tasks) |->
                 IF state.tasks[i].id # id THEN state.tasks[i]
                 ELSE updateTask(state.tasks[i], data, seq, date)] ]

\* the number of uuids updateTaskContent draws for version ids
UuidsDrawn(ts, id, data) ==
  LET task == FindTask(ts, id)
  IN IF task = Undefined \/ AlreadySuccess(task, data) \/ ~PlainMarkdown(data) THEN 0
     ELSE IF ~IsArray(task.markdown) /\ Truthy(task.markdown) THEN 2
     ELSE 1

\* a retry that also selects the task
retryTaskSetSelects(state, id, newFormData) ==
  [ tasks |-> [i \in 1..Len(state.tasks) |->
                 IF state.tasks[i].id = id
                 THEN Spread(state.tasks[i], [formData |-> newFormData, status |-> "PENDING"])
                 ELSE state.tasks[i]],
    currentTaskId |-> id ]

\* a retry that also stamps the task with the time of the retry
retryTaskSetRestamped(state, id, newFormData) ==
  [ tasks |-> [i \in 1..Len(state.tasks) |->
                 IF state.tasks[i].id = id
                 THEN Spread(state.tasks[i], [ formData |-> newFormData, status |-> "PENDING",
                                               createdAt |-> state.tasks[i].createdAt + 1 ])
                 ELSE state.tasks[i]] ]

\* a retry that marks the task PENDING and keeps the parameters it had
retryTaskSetStatusOnly(state, id, newFormData) ==
  [ tasks |-> [i \in 1..Len(state.tasks) |->
                 IF state.tasks[i].id = id
                 THEN Spread(state.tasks[i], [status |-> "PENDING"])
                 ELSE state.tasks[i]] ]

\* a retry that also empties the note of the task
retryTaskSetFresh(state, id, newFormData) ==
  [ tasks |-> [i \in 1..Len(state.tasks) |->
                 IF state.tasks[i].id = id
                 THEN Spread(state.tasks[i], [ formData |-> newFormData, status |-> "PENDING",
                                               markdown |-> EmptyString,
                                               transcript |-> EmptyTranscript ])
                 ELSE state.tasks[i]] ]

\* the set() of retryTask, after generateNote has resolved
retryTaskSet(state, id, newFormData) ==
  [ tasks |-> [i \in 1..Len(state.tasks) |->
                 IF state.tasks[i].id = id
                 THEN Spread(state.tasks[i], [formData |-> newFormData, status |-> "PENDING"])
                 ELSE state.tasks[i]] ]

\* a removeTask that leaves the list as it is until the deletion has ended
removeTaskSetLater(state, id) ==
  [ tasks |-> state.tasks,
    currentTaskId |-> IF state.currentTaskId = id THEN Null ELSE state.currentTaskId ]

\* a removeTask that leaves the selection where it was
removeTaskSetKeepsSelection(state, id) ==
  [tasks |-> FilterOut(state.tasks, id), currentTaskId |-> state.currentTaskId]

\* a removeTask that always clears the selection
removeTaskSetDeselect(state, id) ==
  [tasks |-> FilterOut(state.tasks, id), currentTaskId |-> Null]

\* a removeTask that empties the list
removeTaskSetAll(state, id) ==
  [ tasks |-> <<>>,
    currentTaskId |-> IF state.currentTaskId = id THEN Null ELSE state.currentTaskId ]

\* the set() of removeTask
removeTaskSet(state, id) ==
  [ tasks |-> FilterOut(state.tasks, id),
    currentTaskId |-> IF state.currentTaskId = id THEN Null ELSE state.currentTaskId ]

clearTasks(state) == [tasks |-> <<>>, currentTaskId |-> Null]

setCurrentTask(state, taskId) == [currentTaskId |-> taskId]

\* a callback that renames every task that has a video_url
normalizeTitleAlways(t) ==
  IF Truthy(Field(t.formData, "video_url"))
  THEN Spread(t, [audioMeta |->
                    IF t.audioMeta = Undefined
                    THEN [title |-> FileTitle(t.formData.video_url)]
                    ELSE Spread(t.audioMeta, [title |-> FileTitle(t.formData.video_url)])])
  ELSE t

\* a callback that builds the audioMeta anew from the title alone
normalizeTitleBare(t) ==
  IF /\ t.audioMeta # Undefined
     /\ Field(t.audioMeta, "title") = Field(t.formData, "model_name")
     /\ Truthy(Field(t.formData, "video_url"))
  THEN Spread(t, [audioMeta |-> [title |-> FileTitle(t.formData.video_url)]])
  ELSE t

\* the callback of tasks.map in normalizeTitles
normalizeTitle(t) ==
  LET curTitle == Or(IF t.audioMeta = Undefined THEN Undefined ELSE Field(t.audioMeta, "title"),
                     EmptyString)
  IN IF /\ (curTitle = EmptyString \/ curTitle = Field(t.formData, "model_name"))
        /\ Truthy(Field(t.formData, "video_url"))
     THEN Spread(t, [audioMeta |->
                       IF t.audioMeta = Undefined
                       THEN [title |-> FileTitle(t.formData.video_url)]
                       ELSE Spread(t.audioMeta, [title |-> FileTitle(t.formData.video_url)])])
     ELSE t

normalizeTitles(state) ==
  [ tasks |-> [i \in 1..Len(state.tasks) |-> normalizeTitle(state.tasks[i])] ]

\* getCurrentTask
getCurrentTask(state) ==
  LET t == FindTask(state.tasks, state.currentTaskId)
  IN IF t = Undefined THEN Null ELSE t

----------------------------------------------------------------------------
(* Inputs: form values, uploaded files, backend answers *)

\* strings are written as their characters; a run of characters that holds
\* neither '/' nor '.' is written as one element
Url1 == Str(<<"https:", "/", "/", "x", ".", "test", "/", "my-video", ".", "mp4">>)
Url2 == Str(<<"/", "uploads", "/", ".", "mp4">>)
Upload1 == Str(<<"/", "uploads", "/", "a", ".", "mp4">>)
Upload2 == Str(<<"/", "uploads", "/", "b", ".", "mp4">>)

Values1 ==
  [ video_url |-> Url1, platform |-> "bilibili",
    model_name |-> Str(<<"gpt">>), style |-> Str(<<"minimal">>) ]
Values2 ==
  [ video_url |-> Url2, platform |-> "local",
    model_name |-> Str(<<"qwen">>), style |-> Str(<<"detailed">>) ]
BatchValues ==
  [ platform |-> "batchlocal",
    model_name |-> Str(<<"gpt">>), style |-> Str(<<"minimal">>) ]

\* what the form can hold when it is submitted, with the uploaded batch files
FormValues == {Values1, BatchValues}
batchFiles == <<Upload1, Upload2>>

\* the payload argument of retryTask: none, or other parameters
RetryPayloads == {Undefined, Values2}

Bodies == {Str(<<"A">>), Str(<<"B">>)}

BackendTranscript ==
  [full_text |-> Str(<<"text">>), language |-> Str(<<"zh">>), segments |-> <<>>]
BackendAudioMeta ==
  [title |-> Str(<<"server title">>), video_id |-> Str(<<"BV1">>), platform |-> Str(<<"bilibili">>)]

\* answers of GET /task_status/<id>: a status alone, SUCCESS with a result,
\* SUCCESS without one, and an answer with no status
LookupResponses ==
  {[status |-> st] : st \in {"PENDING", "RUNNING", "PARSING", "FAILED", "SUCCESS"}}
  \cup {[ status |-> "SUCCESS",
          result |-> [ markdown |-> body, transcript |-> BackendTranscript,
                       audio_meta |-> BackendAudioMeta ] ] : body \in Bodies}
  \cup {[code |-> "none"]}

\* what `request.post('/generate_note', data)` hands to generateNote: the
\* payload, the full wrapper around it, a wrapper or a payload that carries an
\* error, nothing at all, or a rejection (the network error)
AcceptedPayload == [task_id |-> Str(<<"accepted">>)]
AcceptedWrapper == [code |-> 0, msg |-> Str(<<"success">>), data |-> AcceptedPayload]
ErrorWrapper == [code |-> 1, msg |-> Str(<<"failed">>), data |-> Null]
ErrorPayload == [msg |-> Str(<<"failed">>)]
NetworkError == [rejected |-> Str(<<"Network Error">>)]
PostResponses ==
  {AcceptedPayload, AcceptedWrapper, ErrorWrapper, ErrorPayload, Null, NetworkError}

Returns(value) == [thrown |-> FALSE, value |-> value]
Throws == [thrown |-> TRUE]

\* generateNote that returns null for an answer it does not accept, and throws
\* only when the request itself was rejected
generateNoteLenient(response) ==
  IF "rejected" \in DOMAIN response THEN Throws
  ELSE IF ~Truthy(response) \/ ~Truthy(Field(response, "data")) THEN Returns(Null)
  ELSE IF Truthy(Field(response.data, "msg")) THEN Returns(Null)
  ELSE Returns(response)

\* generateNote: unwraps a wrapper of code 0, and throws for a rejected
\* request, a wrapper of another code, no payload, or a payload with msg/error
generateNote(response) ==
  IF "rejected" \in DOMAIN response THEN Throws
  ELSE LET wrapped == "code" \in DOMAIN response
           payload == IF wrapped /\ response.code = 0 THEN response.data ELSE response
       IN IF wrapped /\ response.code # 0 THEN Throws
          ELSE IF ~Truthy(payload) THEN Throws
          ELSE IF Truthy(Field(payload, "msg")) \/ Truthy(Field(payload, "error")) THEN Throws
          ELSE Returns(payload)

\* how an awaited request ends
Outcomes == {"resolved", "rejected"}

----------------------------------------------------------------------------------------------------------------------------------------
(* State *)

state == [tasks |-> tasks, currentTaskId |-> currentTaskId]

\* zustand's set(partial): the keys of partial replace those of the state
set(partial) ==
  /\ tasks' = IF "tasks" \in DOMAIN partial THEN partial.tasks ELSE tasks
  /\ currentTaskId' =
       IF "currentTaskId" \in DOMAIN partial THEN partial.currentTaskId ELSE currentTaskId

\* tasksRef.current: the subscription copies every new state's tasks into it
tasksRef == tasks

IdsOf(ts) == {ts[i].id : i \in 1..Len(ts)}
TaskIds == IdsOf(tasks)
IssuedIds == {uuidv4(n) : n \in 1..uuidSeq}

\* the id argument of retryTask: the id of a task that is or was in the
\* store, or no id
RetryIds == IssuedIds \cup {Undefined}

\* new Date(): a logical clock, one instant later for every uuid drawn so far
Date == uuidSeq + verSeq

RemoveAt(seq, i) == SubSeq(seq, 1, i - 1) \o SubSeq(seq, i + 1, Len(seq))

\* the history of content updates of the tasks in ts: the number n of
\* plain-string updates applied and their bodies, newest first, followed by
\* the bodies the task started with (a legacy string, or the listed versions
\* of a rehydrated task); pure as long as no update without a plain string
\* has written the task's markdown
historyOf(ts, old) ==
  [id \in IdsOf(ts) |->
     IF id \in DOMAIN old THEN old[id]
     ELSE LET markdown == FindTask(ts, id).markdown
          IN [ n |-> 0, pure |-> TRUE,
               legacy |-> IsString(markdown) /\ Truthy(markdown),
               listed |-> IF IsArray(markdown) THEN Len(markdown.arr) ELSE 0,
               bodies |-> IF IsArray(markdown)
                          THEN [j \in 1..Len(markdown.arr) |-> markdown.arr[j].content]
                          ELSE IF Truthy(markdown) THEN <<markdown>> ELSE <<>> ]]

\* the step made none of the calls below
Idle == [op |-> "none"]

\* toast.error('任务不存在'), the notice of retryTask for a missing id
NotFoundNotice == Str(<<"task does not exist">>)

\* the step was the call retryTask(id), up to its await, with the toast it showed
Retried(id, toast) == [op |-> "retryTask", id |-> id, toast |-> toast]

\* the step was the end of the generateNote request of retryTask(id)
RetrySettled(id, response) == [op |-> "retrySettled", id |-> id, response |-> response]

\* the step was the end of the generateNote request of onSubmit for the task
SubmitSettled(id, response) == [op |-> "submitSettled", id |-> id, response |-> response]

\* the step was the catch of a get_task_status that threw for the task
LookupFailed(id) == [op |-> "lookupFailed", id |-> id]

\* the step was the call removeTask(id), up to its await
Removed(id) == [op |-> "removeTask", id |-> id]

\* the step was the end of the delete_task request of removeTask(id)
DeleteSettled(id, outcome) == [op |-> "delete_task", id |-> id, outcome |-> outcome]

\* a task rehydrated from a store persisted before versions existed
LegacyTask ==
  [ formData |-> Values1,
    id |-> uuidv4(1),
    status |-> "SUCCESS",
    markdown |-> Str(<<"old">>),
    platform |-> "bilibili",
    transcript |-> BackendTranscript,
    createdAt |-> 0,
    audioMeta |-> [ title |-> Str(<<"gpt">>), video_id |-> Str(<<"BV1">>),
                    platform |-> Str(<<"bilibili">>) ] ]

\* a task rehydrated from a store persisted while its note was generated
\* again: submitted, updated with the note "A", retried
RetriedTask ==
  LET formData == Spread(Values1, [task_id |-> uuidv4(1)])
      added == NewTask(uuidv4(1), Values1.platform, formData, 0)
      note == [ status |-> "SUCCESS", markdown |-> Str(<<"A">>),
                transcript |-> BackendTranscript, audioMeta |-> BackendAudioMeta ]
  IN Spread(updateTask(added, note, 0, 1), [formData |-> formData, status |-> "PENDING"])

\* what persist() rehydrates: nothing, a store with a legacy note, or a
\* store with a note that is being generated again
RehydratedStores == {<<>>, <<LegacyTask>>, <<RetriedTask>>}

\* a store rehydrated with two tasks that were submitted and are waiting
WaitingTasks ==
  LET first == addPendingTask([tasks |-> <<>>, currentTaskId |-> Null], uuidv4(1),
                              Values1.platform, Spread(Values1, [task_id |-> uuidv4(1)]), 0)
  IN addPendingTask(first, uuidv4(2), Values2.platform,
                    Spread(Values2, [task_id |-> uuidv4(2)]), 1).tasks

\* the number of version ids the tasks of a store hold
VersionsIn(ts) ==
  IF ts = <<>> \/ ~IsArray(ts[1].markdown) THEN 0 ELSE Len(ts[1].markdown.arr)

\* the state after construction: the store as persist rehydrates it
InitOver(stores, requests) ==
  /\ tasks \in stores
  /\ currentTaskId = Null
  /\ uuidSeq = Len(tasks)
  /\ verSeq = VersionsIn(tasks)
  /\ reqSeq = 0
  /\ budget = requests
  /\ timer = "set"
  /\ ticks = <<>>
  /\ retries = <<>>
  /\ flows = <<>>
  /\ deletes = {}
  /\ applied = historyOf(tasks, <<>>)
  /\ last = Idle

Init == InitOver(RehydratedStores, MaxRequests)

----------------------------------------------------------------------------
(* The store's asynchronous operations and the form *)

\* what retryTask(id) shows before it returns: a notice for an id that is
\* no id, nothing for an id that no task of the store has
retryTaskToast(id) == IF ~Truthy(id) THEN NotFoundNotice ELSE Undefined

\* a retryTask that returns when the task is still PENDING or RUNNING
retryTaskCallGuarded(id, payload) ==
  LET task == FindTask(tasks, id)
  IN /\ IF ~Truthy(id) \/ task = Undefined
        THEN UNCHANGED <<retries, reqSeq>>
        ELSE /\ task.status \notin {"PENDING", "RUNNING"}
             /\ reqSeq < budget
             /\ reqSeq' = reqSeq + 1
             /\ retries' = Append(retries,
                  LET newFormData == Or(payload, task.formData)
                  IN [ id |-> id, payload |-> payload, newFormData |-> newFormData,
                       data |-> Spread(newFormData, [task_id |-> id]) ])
     /\ UNCHANGED <<tasks, currentTaskId, uuidSeq, verSeq, ticks, flows, deletes, applied>>

\* retryTask up to its `await generateNote`: the request is issued for a
\* task that is in the store, with the payload or else the task's formData
retryTaskCall(id, payload) ==
  LET task == FindTask(tasks, id)
  IN /\ IF ~Truthy(id) \/ task = Undefined
        THEN UNCHANGED <<retries, reqSeq>>
        ELSE /\ reqSeq < budget
             /\ reqSeq' = reqSeq + 1
             /\ retries' = Append(retries,
                  LET newFormData == Or(payload, task.formData)
                  IN [ id |-> id, payload |-> payload, newFormData |-> newFormData,
                       data |-> Spread(newFormData, [task_id |-> id]) ])
     /\ UNCHANGED <<tasks, currentTaskId, uuidSeq, verSeq, ticks, flows, deletes, applied>>

RetryTask(id, payload) == retryTaskCall(id, payload)

\* retryTask after the await: generateNote resolved (the set() runs) or threw
RetrySettles(i, response) ==
  LET call == retries[i]
  IN /\ retries' = RemoveAt(retries, i)
     /\ IF generateNote(response).thrown
        THEN UNCHANGED <<tasks, currentTaskId>>
        ELSE set(retryTaskSet(state, call.id, call.newFormData))
     /\ UNCHANGED <<uuidSeq, verSeq, reqSeq, ticks, flows, deletes, applied>>

\* the delete_task request removeTask issues for the task it found; reading
\* video_id of an undefined audioMeta throws before any request is made
deleteRequests(task) ==
  IF task = Undefined \/ task.audioMeta = Undefined THEN {}
  ELSE {[ id |-> task.id, video_id |-> Field(task.audioMeta, "video_id"),
          platform |-> task.platform ]}

\* removeTask up to its `await delete_task`
RemoveTask(id) ==
  LET task == FindTask(tasks, id)
  IN /\ set(removeTaskSet(state, id))
     /\ reqSeq + Cardinality(deleteRequests(task)) <= budget
     /\ reqSeq' = reqSeq + Cardinality(deleteRequests(task))
     /\ deletes' = deletes \cup deleteRequests(task)
     /\ applied' = historyOf(FilterOut(tasks, id), applied)
     /\ UNCHANGED <<uuidSeq, verSeq, ticks, retries, flows>>

\* removeTask after the await: delete_task resolved or threw
DeleteSettles(request, outcome) ==
  /\ deletes' = deletes \ {request}
  /\ UNCHANGED <<tasks, currentTaskId, uuidSeq, verSeq, reqSeq, ticks, retries, flows, applied>>

ClearTasks ==
  /\ set(clearTasks(state))
  /\ applied' = historyOf(<<>>, applied)
  /\ UNCHANGED <<uuidSeq, verSeq, reqSeq, ticks, retries, flows, deletes>>

\* the history list selects a task; handleCreateNew selects none
SetCurrentTask(taskId) ==
  /\ set(setCurrentTask(state, taskId))
  /\ UNCHANGED <<uuidSeq, verSeq, reqSeq, ticks, retries, flows, deletes, applied>>

\* HomePage's mount effect
NormalizeTitles ==
  /\ set(normalizeTitles(state))
  /\ UNCHANGED <<uuidSeq, verSeq, reqSeq, ticks, retries, flows, deletes, applied>>

\* a submission that issues the generateNote request without the optimistic add
submitWithoutAdd(st, values, urls, n, date) ==
  [ set |-> [tasks |-> st.tasks, currentTaskId |-> st.currentTaskId],
    flow |-> [ id |-> uuidv4(n), values |-> values,
               urls |-> IF urls = <<>> THEN <<>> ELSE Tail(urls) ] ]

\* onSubmit's optimistic add followed by the generateNote request, for a
\* single video (urls = <<>>) or for the first of the remaining batch files;
\* n is the uuid drawn for the task id
submitNext(st, values, urls, n, date) ==
  LET id == uuidv4(n)
      payload == IF values.platform = "batchlocal"
                 THEN Spread(values, [video_url |-> Head(urls), task_id |-> id, platform |-> "local"])
                 ELSE Spread(values, [task_id |-> id])
  IN [ set |-> addPendingTask(st, id, payload.platform, payload, date),
       flow |-> [ id |-> id, values |-> values,
                  urls |-> IF urls = <<>> THEN <<>> ELSE Tail(urls) ] ]

\* onSubmit up to its first await: a retry of the current task when one is
\* selected, else an optimistic task and its submission
OnSubmit(values) ==
  IF currentTaskId # Null
     THEN retryTaskCall(currentTaskId, Undefined)
     ELSE LET urls == IF values.platform = "batchlocal" THEN batchFiles ELSE <<>>
              next == submitNext(state, values, urls, uuidSeq + 1, Date)
          IN /\ reqSeq < budget
             /\ reqSeq' = reqSeq + 1
             /\ set(next.set)
             /\ uuidSeq' = uuidSeq + 1
             /\ flows' = Append(flows, next.flow)
             /\ applied' = historyOf(next.set.tasks, applied)
             /\ UNCHANGED <<verSeq, ticks, retries, deletes>>

\* onSubmit after `await generateNote`: on a throw the optimistic task is
\* removed; then the batch loop goes on to its next file, if any
SubmitSettles(i, response) ==
  LET flow == flows[i]
      outcome == IF generateNote(response).thrown THEN "rejected" ELSE "resolved"
      removed == IF outcome = "rejected"
                 THEN Spread(state, removeTaskSet(state, flow.id))
                 ELSE state
      requests == IF outcome = "rejected"
                  THEN deleteRequests(FindTask(tasks, flow.id))
                  ELSE {}
      more == flow.urls # <<>>
      next == submitNext(removed, flow.values, flow.urls, uuidSeq + 1, Date)
      sent == Cardinality(requests) + (IF more THEN 1 ELSE 0)
  IN /\ reqSeq + sent <= budget
     /\ reqSeq' = reqSeq + sent
     /\ deletes' = deletes \cup requests
     /\ IF more
        THEN /\ set(next.set)
             /\ uuidSeq' = uuidSeq + 1
             /\ flows' = [flows EXCEPT ![i] = next.flow]
             /\ applied' = historyOf(next.set.tasks, applied)
        ELSE /\ set(removed)
             /\ uuidSeq' = uuidSeq
             /\ flows' = RemoveAt(flows, i)
             /\ applied' = historyOf(removed.tasks, applied)
     /\ UNCHANGED <<verSeq, ticks, retries>>

----------------------------------------------------------------------------
(* The poller (useTaskPolling) *)

EmptyObject == [k \in {} |-> Undefined]

\* a snapshot that holds the tasks to look up last to first
pendingTasksReversed ==
  LET open == SelectSeq(tasksRef, LAMBDA task : task.status # "SUCCESS" /\ task.status # "FAILED")
  IN [j \in 1..Len(open) |-> [ id |-> open[Len(open) + 1 - j].id,
                               status |-> open[Len(open) + 1 - j].status ]]

\* tasksRef.current filtered to the tasks that are neither SUCCESS nor FAILED;
\* a filter that keeps the tasks whose status is PENDING or RUNNING
pendingTasksWaiting ==
  LET open == SelectSeq(tasksRef, LAMBDA task : task.status \in {"PENDING", "RUNNING"})
  IN [j \in 1..Len(open) |-> [id |-> open[j].id, status |-> open[j].status]]

\* a filter that keeps only the tasks still PENDING
pendingTasksOnlyPending ==
  LET open == SelectSeq(tasksRef, LAMBDA task : task.status = "PENDING")
  IN [j \in 1..Len(open) |-> [id |-> open[j].id, status |-> open[j].status]]

\* of each task object of the snapshot the loop reads id and status
pendingTasks ==
  LET open == SelectSeq(tasksRef, LAMBDA task : task.status # "SUCCESS" /\ task.status # "FAILED")
  IN [j \in 1..Len(open) |-> [id |-> open[j].id, status |-> open[j].status]]

\* the interval callback up to its first `await get_task_status`
TimerFires ==
  /\ timer = "set"
  /\ IF pendingTasks = <<>>
     THEN UNCHANGED <<ticks, reqSeq>>
     ELSE /\ reqSeq < budget
          /\ reqSeq' = reqSeq + 1
          /\ ticks' = Append(ticks, [pendingTasks |-> pendingTasks, k |-> 1])
  /\ UNCHANGED <<tasks, currentTaskId, uuidSeq, verSeq, retries, flows, deletes, applied>>

\* the loop goes on to look up the next task of its snapshot, or the tick ends
advance(i) ==
  IF ticks[i].k < Len(ticks[i].pendingTasks)
  THEN /\ reqSeq < budget
       /\ reqSeq' = reqSeq + 1
       /\ ticks' = [ticks EXCEPT ![i].k = @ + 1]
  ELSE /\ reqSeq' = reqSeq
       /\ ticks' = RemoveAt(ticks, i)

\* the patch the loop passes to updateTaskContent for an answer whose status
\* differs from the snapshot's; Undefined when it makes no call
patchFor(task, resp) ==
  IF "status" \in DOMAIN resp /\ resp.status # task.status
  THEN IF resp.status = "SUCCESS"
       THEN LET result == Or(Field(resp, "result"), EmptyObject)
            IN [ status |-> resp.status,
                 markdown |-> Field(result, "markdown"),
                 transcript |-> Field(result, "transcript"),
                 audioMeta |-> Field(result, "audio_meta") ]
       ELSE [status |-> resp.status]
  ELSE Undefined

\* the history of plain-string updates after updateTaskContent(id, data)
appliedAfter(id, data) ==
  LET task == FindTask(tasks, id)
  IN IF task = Undefined \/ AlreadySuccess(task, data) \/ "markdown" \notin DOMAIN data
     THEN applied
     ELSE [applied EXCEPT ![id] =
             IF PlainMarkdown(data)
             THEN [@ EXCEPT !.n = @ + 1, !.bodies = <<data.markdown>> \o @]
             ELSE [@ EXCEPT !.pure = FALSE]]

\* the updateTaskContent call of a step, with its arguments
Called(id, data) == [op |-> "updateTaskContent", id |-> id, data |-> data]

\* get_task_status resolves and the loop applies the answer
LookupReturns(i, resp) ==
  LET task == ticks[i].pendingTasks[ticks[i].k]
      data == patchFor(task, resp)
  IN /\ advance(i)
     /\ IF data # Undefined
        THEN /\ set(updateTaskContent(state, task.id, data, verSeq, Date))
             /\ verSeq' = verSeq + UuidsDrawn(tasks, task.id, data)
             /\ applied' = appliedAfter(task.id, data)
             /\ last' = Called(task.id, data)
        ELSE /\ UNCHANGED <<tasks, currentTaskId, verSeq, applied>>
             /\ last' = Idle
     /\ UNCHANGED <<uuidSeq, retries, flows, deletes>>

\* a catch that ends the tick when a lookup throws
LookupThrowsEndsTick(i) ==
  /\ ticks' = RemoveAt(ticks, i)
  /\ UNCHANGED <<tasks, currentTaskId, uuidSeq, verSeq, reqSeq, retries, flows, deletes, applied>>

\* get_task_status throws: logged, the loop goes on
LookupThrows(i) ==
  /\ advance(i)
  /\ UNCHANGED <<tasks, currentTaskId, uuidSeq, verSeq, retries, flows, deletes, applied>>

\* a cleanup that also drops the ticks in flight
clearIntervalAborting ==
  /\ timer = "set"
  /\ timer' = "cleared"
  /\ ticks' = <<>>
  /\ last' = Idle
  /\ UNCHANGED <<tasks, currentTaskId, uuidSeq, verSeq, reqSeq, budget, retries, flows,
                 deletes, applied>>

\* the cleanup of the effect: the component that polls is unmounted
clearInterval ==
  /\ timer = "set"
  /\ timer' = "cleared"
  /\ last' = Idle
  /\ UNCHANGED <<tasks, currentTaskId, uuidSeq, verSeq, reqSeq, budget, ticks, retries,
                 flows, deletes, applied>>

----------------------------------------------------------------------------

\* the record of the call a step made, kept where calls are watched
Seen(watched, record) == IF watched THEN record ELSE Idle

\* the step leaves that record, and the budget and the interval as they are
Leaves(record) == last' = record /\ UNCHANGED <<budget, timer>>

\* the calls the pages make on the store and on the backend, and their ends;
\* with strays, retryTask is also called for ids that no task has
StoreNext(forms, strays, payloads, responses, watched) ==
  \/ \E values \in forms :
       /\ OnSubmit(values)
       /\ Leaves(Seen(watched, IF currentTaskId # Null
                                 THEN Retried(currentTaskId, retryTaskToast(currentTaskId))
                                 ELSE Idle))
  \/ \E i \in 1..Len(flows), response \in responses :
       SubmitSettles(i, response) /\ Leaves(Seen(watched, SubmitSettled(flows[i].id, response)))
  \/ \E id \in IF strays THEN RetryIds ELSE TaskIds, payload \in payloads :
       RetryTask(id, payload) /\ Leaves(Seen(watched, Retried(id, retryTaskToast(id))))
  \/ \E i \in 1..Len(retries), response \in responses :
       RetrySettles(i, response) /\ Leaves(Seen(watched, RetrySettled(retries[i].id, response)))
  \/ \E id \in TaskIds : RemoveTask(id) /\ Leaves(Seen(watched, Removed(id)))
  \/ \E request \in deletes, outcome \in Outcomes :
       DeleteSettles(request, outcome) /\ Leaves(Seen(watched, DeleteSettled(request.id, outcome)))
  \/ \E taskId \in TaskIds \cup {Null} : SetCurrentTask(taskId) /\ Leaves(Idle)

\* the calls that rewrite the whole list: the history's clear button and the
\* mount effect of HomePage
ListNext ==
  \/ ClearTasks /\ Leaves(Idle)
  \/ NormalizeTitles /\ Leaves(Idle)

\* the steps of useTaskPolling
PollerNext(answers, watched) ==
  \/ TimerFires /\ Leaves(Idle)
  \/ \E i \in 1..Len(ticks), resp \in answers : LookupReturns(i, resp) /\ UNCHANGED <<budget, timer>>
  \/ \E i \in 1..Len(ticks) :
       LookupThrows(i) /\ Leaves(Seen(watched, LookupFailed(ticks[i].pendingTasks[ticks[i].k].id)))

Next ==
  \/ StoreNext(FormValues, FALSE, RetryPayloads, {AcceptedPayload, NetworkError}, FALSE)
  \/ ListNext
  \/ PollerNext(LookupResponses, FALSE)

Spec == Init /\ [][Next]_vars

\* the calls on single tasks alone, watched, from a store rehydrated with a
\* finished task, with retryTask called for any id ever issued or for none,
\* and every answer to a submission
StoreOnlyNext == StoreNext(FormValues, TRUE, RetryPayloads, PostResponses, TRUE)

SpecStore == InitOver({<<LegacyTask>>}, MaxRequests) /\ [][StoreOnlyNext]_vars

\* the poller with its lookups watched, and retryTask, over two waiting tasks
PollingNext ==
  \/ PollerNext(LookupResponses, TRUE)
  \/ \E id \in TaskIds : RetryTask(id, Undefined) /\ Leaves(Idle)
  \/ \E i \in 1..Len(retries), response \in {AcceptedPayload, NetworkError} :
       RetrySettles(i, response) /\ Leaves(Idle)

SpecPolling == InitOver({WaitingTasks}, MaxLookups) /\ [][PollingNext]_vars

\* what GET /task_status/<id> answers for good once the backend is done with
\* the task: SUCCESS, with a result or without, for the first task submitted
\* and FAILED for the second
FinalAnswers(id) ==
  IF id = uuidv4(1)
  THEN {resp \in LookupResponses :
          /\ "status" \in DOMAIN resp /\ resp.status = "SUCCESS"
          /\ "result" \in DOMAIN resp => resp.result.markdown = Str(<<"A">>)}
  ELSE {[status |-> "FAILED"]}

\* what it answers while the backend still works on the task
EarlyAnswers ==
  {resp \in LookupResponses : "status" \notin DOMAIN resp \/ resp.status \notin {"SUCCESS", "FAILED"}}

\* the task a tick waits for
awaited(i) == ticks[i].pendingTasks[ticks[i].k].id

\* the lookups the ticks in flight have still to send
RECURSIVE owed(_)
owed(n) ==
  IF n = 0 THEN 0 ELSE owed(n - 1) + Len(ticks[n].pendingTasks) - ticks[n].k

\* the interval fires, while the window has room for every lookup of the
\* tick and of the ticks in flight
Polls ==
  /\ reqSeq + owed(Len(ticks)) + Len(pendingTasks) <= budget
  /\ TimerFires
  /\ Leaves(Idle)

\* a lookup of that task returns the backend's final answer
FinalReturn(id) ==
  \E i \in 1..Len(ticks), resp \in FinalAnswers(id) :
    awaited(i) = id /\ LookupReturns(i, resp) /\ UNCHANGED <<budget, timer>>

\* a lookup returns an answer of the backend at work, while the versions the
\* store holds are within their bound
EarlyReturn ==
  /\ verSeq < MaxVersions
  /\ \E i \in 1..Len(ticks), resp \in EarlyAnswers : LookupReturns(i, resp) /\ UNCHANGED <<budget, timer>>

\* a lookup throws
FailedReturn ==
  \E i \in 1..Len(ticks) : LookupThrows(i) /\ Leaves(LookupFailed(awaited(i)))

\* the interval has no last tick: the count of requests starts again once
\* none is in flight, so that the bound limits the requests of one window
NextWindow ==
  /\ ticks = <<>>
  /\ reqSeq > 0
  /\ reqSeq' = 0
  /\ UNCHANGED <<tasks, currentTaskId, uuidSeq, verSeq, ticks, retries, flows, deletes, applied>>
  /\ Leaves(Idle)

LiveNext ==
  \/ Polls
  \/ \E id \in IdsOf(WaitingTasks) : FinalReturn(id)
  \/ EarlyReturn
  \/ FailedReturn
  \/ NextWindow

\* the poller alone, mounted for good, over two waiting tasks: the interval
\* keeps firing, and of the lookups of a task one returns the backend's
\* final answer again and again as long as the task is looked up
SpecLive ==
  /\ InitOver({WaitingTasks}, MaxWindow)
  /\ [][LiveNext]_vars
  /\ WF_vars(Polls)
  /\ WF_vars(NextWindow)
  /\ \A id \in IdsOf(WaitingTasks) : SF_vars(FinalReturn(id))

\* video_url values of a form: none, the empty string, a file URL, a path
\* whose file has an extension and no name, a page URL that ends in a slash,
\* and a bare name
UrlDir == Str(<<"https:", "/", "/", "x", ".", "test", "/", "dir", "/">>)
UrlBare == Str(<<"clip">>)
TitleUrls == {Undefined, EmptyString, Url1, Url2, UrlDir, UrlBare}

\* the submission parameters addPendingTask is called with: a form with or
\* without video_url, title and model_name, or none at all
TitleForms ==
  {Undefined}
  \cup { Spread(Spread(IF url = Undefined THEN EmptyObject ELSE [video_url |-> url],
                       IF title = Undefined THEN EmptyObject ELSE [title |-> title]),
                IF model = Undefined THEN EmptyObject ELSE [model_name |-> model])
         : url \in TitleUrls, title \in {Undefined, Str(<<"my title">>)},
           model \in {Undefined, Str(<<"gpt">>)} }

\* the addPendingTask call of a step, with its submission parameters
Added(id, formData) == [op |-> "addPendingTask", id |-> id, formData |-> formData]

\* addPendingTask(taskId, platform, formData) with a fresh id
AddPendingTask(formData) ==
  LET taskId == uuidv4(uuidSeq + 1)
  IN /\ uuidSeq < budget
     /\ set(addPendingTask(state, taskId, "local", formData, Date))
     /\ uuidSeq' = uuidSeq + 1
     /\ applied' = historyOf(tasks', applied)
     /\ UNCHANGED <<verSeq, reqSeq, ticks, retries, flows, deletes>>
     /\ Leaves(Added(taskId, formData))

TitleNext == \E formData \in TitleForms : AddPendingTask(formData)

\* addPendingTask alone, over every form, from an empty store
SpecTitle ==
  InitOver({<<>>}, MaxTitles) /\ [][TitleNext]_vars

\* a store rehydrated with a legacy note, a waiting task and a task the
\* poller set to SUCCESS from an answer that carried no result
StoreWithBareTask ==
  LET second == addPendingTask([tasks |-> <<LegacyTask>>, currentTaskId |-> Null], uuidv4(2),
                               Values2.platform, Spread(Values2, [task_id |-> uuidv4(2)]), 1)
      third == addPendingTask(second, uuidv4(3), Values1.platform,
                              Spread(Values1, [task_id |-> uuidv4(3)]), 2)
      bare == patchFor([id |-> uuidv4(3), status |-> "PENDING"], [status |-> "SUCCESS"])
  IN updateTaskContent(third, uuidv4(3), bare, 0, 3).tasks

\* removeTask called for the id of a task that is or was in the store, the
\* ends of its deletion requests, and the selection of a task
RemoveNext ==
  \/ \E id \in IssuedIds : RemoveTask(id) /\ Leaves(Removed(id))
  \/ \E request \in deletes, outcome \in Outcomes :
       DeleteSettles(request, outcome) /\ Leaves(DeleteSettled(request.id, outcome))
  \/ \E taskId \in TaskIds \cup {Null} : SetCurrentTask(taskId) /\ Leaves(Idle)

SpecRemove == InitOver({StoreWithBareTask}, MaxRequests) /\ [][RemoveNext]_vars

\* the patches updateTaskContent is called with: with or without a status,
\* and with no markdown, an undefined one, a string or a list of versions
ListedMarkdown == Arr(<<[content |-> Str(<<"L">>)]>>)
Patches ==
  { Spread(IF status = "none" THEN EmptyObject ELSE [status |-> status],
           IF markdown = Null THEN EmptyObject ELSE [markdown |-> markdown])
    : status \in {"none", "RUNNING", "SUCCESS"},
      markdown \in {Null, Undefined, Str(<<"B">>), ListedMarkdown} }
  \cup {[status |-> "SUCCESS", transcript |-> BackendTranscript]}

\* updateTaskContent(id, data), for the id of a task or an id no task has;
\* the calls are counted as the requests are
UpdateTaskContent(id, data) ==
  /\ reqSeq < budget
  /\ reqSeq' = reqSeq + 1
  /\ set(updateTaskContent(state, id, data, verSeq, Date))
  /\ verSeq' = verSeq + UuidsDrawn(tasks, id, data)
  /\ applied' = appliedAfter(id, data)
  /\ UNCHANGED <<uuidSeq, ticks, retries, flows, deletes>>
  /\ Leaves(Called(id, data))

UpdateNext ==
  \E id \in TaskIds \cup {uuidv4(uuidSeq + 1)}, data \in Patches : UpdateTaskContent(id, data)

\* updateTaskContent alone, over every patch, from the rehydrated stores
SpecUpdate ==
  InitOver({<<LegacyTask>>, <<RetriedTask>>, WaitingTasks}, MaxUpdates) /\ [][UpdateNext]_vars

\* the answers of the backend to the lookups of a task that is being worked
\* on, is done, or has failed
AsyncAnswers ==
  { [status |-> "RUNNING"], [status |-> "FAILED"],
    [ status |-> "SUCCESS",
      result |-> [ markdown |-> Str(<<"A">>), transcript |-> BackendTranscript,
                   audio_meta |-> BackendAudioMeta ] ] }

\* the calls that end later (lookups, retries) together with the calls that
\* take tasks away or select them, all watched, over two waiting tasks
AsyncNext ==
  \/ PollerNext(AsyncAnswers, TRUE)
  \/ \E id \in TaskIds, payload \in RetryPayloads :
       RetryTask(id, payload) /\ Leaves(Retried(id, retryTaskToast(id)))
  \/ \E i \in 1..Len(retries), response \in {AcceptedPayload, NetworkError} :
       RetrySettles(i, response) /\ Leaves(RetrySettled(retries[i].id, response))
  \/ \E id \in TaskIds : RemoveTask(id) /\ Leaves(Removed(id))
  \/ ClearTasks /\ Leaves(Idle)
  \/ \E taskId \in TaskIds \cup {Null} : SetCurrentTask(taskId) /\ Leaves(Idle)

SpecAsync == InitOver({WaitingTasks}, MaxAsync) /\ [][AsyncNext]_vars

\* an uploaded file that is named like the model
UrlModel == Str(<<"/", "uploads", "/", "gpt", ".", "mp4">>)

\* the tasks a persisted store can hold when HomePage mounts: a legacy note
\* titled with the model name, a retried task with a version and the title
\* the backend gave it, a waiting task titled by addPendingTask, a task whose
\* audioMeta a SUCCESS answer without result has overwritten, a note titled
\* with the model name whose file is named like the model, one that has no
\* video_url, and a note with an empty title
NormalizeKinds ==
  { LegacyTask,
    RetriedTask,
    WaitingTasks[1],
    StoreWithBareTask[1],
    Spread(LegacyTask, [formData |-> Spread(Values1, [video_url |-> UrlModel])]),
    Spread(LegacyTask, [formData |-> BatchValues]),
    Spread(LegacyTask, [audioMeta |-> Spread(LegacyTask.audioMeta, [title |-> EmptyString])]) }

\* the stores of up to MaxNormalize such tasks, newest first
NormalizeStores ==
  UNION { { [i \in 1..n |-> Spread(kinds[i], [id |-> uuidv4(n + 1 - i), createdAt |-> n - i])]
            : kinds \in [1..n -> NormalizeKinds] }
          : n \in 0..MaxNormalize }

\* the step was a normalizeTitles call
Normalized == [op |-> "normalizeTitles"]

\* normalizeTitles applied to every such store, with any selection
NormalizeNext ==
  \/ NormalizeTitles /\ Leaves(Normalized)
  \/ \E taskId \in TaskIds \cup {Null} : SetCurrentTask(taskId) /\ Leaves(Idle)

SpecNormalize == InitOver(NormalizeStores, MaxNormalize) /\ [][NormalizeNext]_vars

\* the poller with its lookups watched, and its teardown
TeardownNext ==
  \/ PollerNext(LookupResponses, TRUE)
  \/ clearInterval

SpecTeardown == InitOver({WaitingTasks}, MaxLookups) /\ [][TeardownNext]_vars

TypeOK ==
  /\ \A i \in 1..Len(tasks) : tasks[i].id \in IssuedIds
  /\ reqSeq <= budget
  /\ DOMAIN applied = TaskIds
  /\ timer \in {"set", "cleared"}

----------------------------------------------------------------------------
(* Properties *)

\* the task of the store with the id, before and after a step
Before(id) == FindTask(tasks, id)
After(id) == FindTask(tasks', id)

\* the tasks that are in the store before and after a step
Kept == TaskIds \cap IdsOf(tasks')

\* the step applied an updateTaskContent call of the poller to the task
PollerUpdated(id) == last'.op = "updateTaskContent" /\ last'.id = id /\ id \in TaskIds

\* the bodies of a version list
bodiesOf(versions) == [j \in 1..Len(versions) |-> versions[j].content]

\* old is the tail of new
IsSuffix(old, new) ==
  /\ Len(old) <= Len(new)
  /\ SubSeq(new, Len(new) - Len(old) + 1, Len(new)) = old

\* C1: once a task's status is SUCCESS, no update the poller applies, from a
\* lookup issued before or after the task became SUCCESS, changes the status
\* to another value
C1_NoRegressionFromSuccess ==
  [][\A id \in TaskIds :
       PollerUpdated(id) /\ Before(id).status = "SUCCESS"
         => After(id).status = "SUCCESS"]_vars

\* C2: once a task's markdown is a list with at least one version, every
\* step keeps the versions it had, with their bodies and in their order, as
\* the tail of the list, as long as the task is in the store
C2_VersionsNeverLost ==
  [][\A id \in Kept :
       IsArray(Before(id).markdown) /\ Before(id).markdown.arr # <<>>
         => /\ IsArray(After(id).markdown)
            /\ IsSuffix(bodiesOf(Before(id).markdown.arr), bodiesOf(After(id).markdown.arr))]_vars

\* C3: an update with status SUCCESS applied to a task whose status is
\* SUCCESS changes nothing of the task (markdown, status, transcript,
\* audioMeta) and creates no version
C3_SuccessOnSuccessIsNoOp ==
  [][\A id \in TaskIds :
       PollerUpdated(id) /\ HasStatus(last'.data, "SUCCESS") /\ Before(id).status = "SUCCESS"
         => tasks' = tasks /\ verSeq' = verSeq]_vars

\* C3 happens: a task that is SUCCESS with the one version "A" has just been
\* sent a duplicate SUCCESS with the body "B", and still has the one version "A"
C3_DuplicateSuccessIgnored ==
  /\ last.op = "updateTaskContent"
  /\ HasStatus(last.data, "SUCCESS")
  /\ Field(last.data, "markdown") = Str(<<"B">>)
  /\ last.id \in TaskIds
  /\ FindTask(tasks, last.id).status = "SUCCESS"
  /\ IsArray(FindTask(tasks, last.id).markdown)
  /\ bodiesOf(FindTask(tasks, last.id).markdown.arr) = <<Str(<<"A">>)>>

\* the edges of the status machine
StatusEdges ==
  { <<"PENDING", "RUNNING">>, <<"PENDING", "SUCCESS">>, <<"PENDING", "FAILED">>,
    <<"RUNNING", "SUCCESS">>, <<"RUNNING", "FAILED">>,
    <<"SUCCESS", "PENDING">>, <<"FAILED", "PENDING">> }

\* C4: every change of a task's status follows an edge of the status
\* machine, and the poller's updates take no edge into PENDING
C4_StatusFollowsEdges ==
  [][\A id \in Kept :
       Before(id).status # After(id).status
         => /\ <<Before(id).status, After(id).status>> \in StatusEdges
            /\ After(id).status = "PENDING" => ~PollerUpdated(id)]_vars

HoldsAppliedBodies(id) ==
  LET markdown == FindTask(tasks, id).markdown
  IN /\ IsArray(markdown)
     /\ Len(markdown.arr)
          = applied[id].n + (IF applied[id].legacy THEN 1 ELSE 0) + applied[id].listed
     /\ bodiesOf(markdown.arr) = applied[id].bodies

\* C6: after n updates carrying a plain string have been applied to a task,
\* its version list has n versions, one more when the task started with a
\* non-empty legacy string; the newest body is first and the earlier bodies
\* are unchanged
C6_VersionCount ==
  \A id \in TaskIds : applied[id].n >= 1 => HoldsAppliedBodies(id)

\* C6 for the tasks whose markdown only plain-string updates have written
C6_VersionCountOfPlainUpdates ==
  \A id \in TaskIds : applied[id].pure /\ applied[id].n >= 1 => HoldsAppliedBodies(id)

\* C6 for plain-string updates happens: an update has been applied to a
\* task that started with a legacy string, and one to a task that held a list
C6_UpdatesOnLegacyAndList ==
  \E id \in TaskIds :
    /\ applied[id].pure
    /\ applied[id].n = 1
    /\ applied[id].legacy \/ applied[id].listed = 1

\* the step applied a plain-string update of the poller to the task
PlainUpdated(id) ==
  /\ PollerUpdated(id)
  /\ PlainMarkdown(last'.data)
  /\ ~AlreadySuccess(Before(id), last'.data)

\* C7: a plain-string update makes the markdown the list [new] when it was
\* empty or absent, [new, ...existing] when it was a list, and
\* [new, wrapped legacy] when it was a non-empty string
C7_PlainStringUpdate ==
  [][\A id \in TaskIds :
       PlainUpdated(id)
         => LET prev == Before(id).markdown
                new == After(id).markdown
            IN /\ IsArray(new)
               /\ new.arr # <<>>
               /\ new.arr[1].content = last'.data.markdown
               /\ IF IsArray(prev) THEN Tail(new.arr) = prev.arr
                  ELSE IF Truthy(prev) THEN bodiesOf(Tail(new.arr)) = <<prev>>
                  ELSE Tail(new.arr) = <<>>]_vars

\* C7 happens: the legacy note "old" has just been updated with "A" and
\* holds the bodies "A", "old" in that order
C7_LegacyWrapped ==
  /\ last.op = "updateTaskContent"
  /\ Field(last.data, "markdown") = Str(<<"A">>)
  /\ last.id \in TaskIds
  /\ applied[last.id].legacy
  /\ IsArray(FindTask(tasks, last.id).markdown)
  /\ bodiesOf(FindTask(tasks, last.id).markdown.arr) = <<Str(<<"A">>), Str(<<"old">>)>>

\* the versions of a list that were created after seq version ids were drawn
versionsSince(versions, seq) == {j \in 1..Len(versions) : versions[j].ver_id.uuid > seq}

\* C8: the versions an update creates, the new one and the one wrapping a
\* legacy string, carry the style and model_name of the task's formData as
\* it is in the store when the update is applied
C8_VersionStyleFromFormData ==
  [][\A id \in TaskIds :
       PlainUpdated(id)
         => LET new == After(id).markdown.arr
                created == versionsSince(new, verSeq)
            IN /\ created # {}
               /\ \A j \in created :
                    /\ new[j].style = Or(Field(Before(id).formData, "style"), EmptyString)
                    /\ new[j].model_name = Or(Field(Before(id).formData, "model_name"), EmptyString)]_vars

\* C8 happens: a task retried with other parameters holds a version of the
\* retry's style and model above a version of the first submission's
C8_RetryStyleOnNewVersion ==
  \E id \in TaskIds :
    LET markdown == FindTask(tasks, id).markdown
    IN /\ IsArray(markdown)
       /\ Len(markdown.arr) = 2
       /\ FindTask(tasks, id).formData = Values2
       /\ markdown.arr[1].style = Values2.style
       /\ markdown.arr[1].model_name = Values2.model_name
       /\ markdown.arr[2].style = Values1.style

\* C9: addPendingTask sets a task's createdAt, and no step changes it as
\* long as the task is in the store
C9_CreatedAtNeverChanges ==
  [][tasks' # tasks
       => /\ \A id \in Kept : After(id).createdAt = Before(id).createdAt
          /\ \A id \in IdsOf(tasks') \ TaskIds : After(id).createdAt = Date]_vars

\* C9 happens: a task that was updated and then retried holds a version
\* created after the task was
C9_UpdatedAndRetried ==
  \E id \in TaskIds :
    LET task == FindTask(tasks, id)
    IN /\ applied[id].n >= 1
       /\ task.status = "PENDING"
       /\ IsArray(task.markdown)
       /\ task.markdown.arr # <<>>
       /\ task.markdown.arr[1].created_at > task.createdAt

\* the ids of the submissions in flight
flowIds(fs) == {fs[i].id : i \in 1..Len(fs)}

\* C10: in the step that issues the generateNote request for a new task id,
\* the task is in the store, first of the list, PENDING and with empty
\* markdown, and it is the current task
C10_AddedBeforeSubmit ==
  [][\A id \in flowIds(flows') \ flowIds(flows) :
       /\ tasks' # <<>>
       /\ tasks'[1].id = id
       /\ tasks'[1].status = "PENDING"
       /\ tasks'[1].markdown = EmptyString
       /\ currentTaskId' = id]_vars

\* C10 happens: a submission is in flight and its task is in the store,
\* PENDING, with empty markdown, selected
C10_PendingWhileInFlight ==
  \E i \in 1..Len(flows) :
    /\ flows[i].id \in TaskIds
    /\ FindTask(tasks, flows[i].id).status = "PENDING"
    /\ FindTask(tasks, flows[i].id).markdown = EmptyString
    /\ currentTaskId = flows[i].id

\* the ids of the tasks that have been in the store and are not any more
GoneIds == IssuedIds \ TaskIds

\* C11: removeTask(id) takes the task out of the list in its first step,
\* before the delete_task request has ended, and a task that has left the
\* list never comes back, whether that request resolves or is rejected
C11_RemovalIsFinal ==
  [][/\ last'.op = "removeTask" => last'.id \notin IdsOf(tasks')
     /\ \A id \in GoneIds : id \notin IdsOf(tasks')]_vars

\* C11 happens: the delete_task request of a removed task has been rejected,
\* and the task is not in the list
C11_DeleteRejected ==
  /\ last.op = "delete_task"
  /\ last.outcome = "rejected"
  /\ last.id \in GoneIds

\* C12: removeTask(id) sets currentTaskId to null exactly when it was id,
\* and leaves the other tasks as they were, in their order
C12_RemoveTaskFrame ==
  [][last'.op = "removeTask"
       => /\ currentTaskId' = IF currentTaskId = last'.id THEN Null ELSE currentTaskId
          /\ tasks' = SelectSeq(tasks, LAMBDA task : task.id # last'.id)]_vars

\* C12 happens: a task has been removed, another task is still in the list
\* and is still the current task
C12_OtherTaskStillCurrent ==
  /\ last.op = "removeTask"
  /\ last.id \in GoneIds
  /\ currentTaskId \in TaskIds

\* C13: retryTask with an id that is not in the store tells the user that
\* the task does not exist, sends no request and leaves the store as it is
C13_RetryOfMissingTask ==
  [][last'.op = "retryTask" /\ last'.id \notin TaskIds
       => /\ last'.toast = NotFoundNotice
          /\ retries' = retries
          /\ tasks' = tasks
          /\ currentTaskId' = currentTaskId]_vars

\* the answers to a submission that say the backend accepted it
Accepted == {AcceptedPayload, AcceptedWrapper}

\* the retryTask calls in flight whose end the step was
EndedRetries == {i \in 1..Len(retries) : retries' = RemoveAt(retries, i) /\ retries[i].id = last'.id}

\* C14: retryTask on a task of the store first sends the submission again,
\* with the task's id and with the payload given or else the stored formData,
\* and leaves the task as it was; only the step in which that submission is
\* accepted sets the status to PENDING and formData to what was submitted
C14_RetryResubmitsThenPends ==
  [][/\ last'.op = "retryTask" /\ last'.id \in TaskIds
          => LET call == retries'[Len(retries')]
                 params == IF Truthy(call.payload) THEN call.payload ELSE Before(last'.id).formData
             IN /\ retries' = Append(retries, call)
                /\ call.id = last'.id
                /\ call.newFormData = params
                /\ call.data = Spread(params, [task_id |-> last'.id])
                /\ tasks' = tasks
     /\ last'.op = "retrySettled" /\ last'.response \in Accepted /\ last'.id \in TaskIds
          => \E i \in EndedRetries :
               /\ After(last'.id).status = "PENDING"
               /\ After(last'.id).formData = retries[i].newFormData
               /\ retries[i].data = Spread(After(last'.id).formData, [task_id |-> last'.id])]_vars

\* C14 happens: the retry of a SUCCESS task with other parameters was
\* accepted, and the task is PENDING with those parameters
C14_RetriedWithPayload ==
  /\ last.op = "retrySettled"
  /\ last.response = AcceptedWrapper
  /\ last.id = LegacyTask.id
  /\ FindTask(tasks, last.id) = Spread(LegacyTask, [formData |-> Values2, status |-> "PENDING"])

\* the answers to a submission that are failures: the request was rejected,
\* or the backend answered with an error
Failures == {NetworkError, ErrorWrapper, ErrorPayload}

\* C15: when the submission of a retry fails, the step that ends it leaves
\* the task as it was: status, formData and note
C15_FailedRetryKeepsTask ==
  [][last'.op = "retrySettled" /\ last'.response \in Failures /\ last'.id \in TaskIds
       => /\ EndedRetries # {}
          /\ After(last'.id) = Before(last'.id)]_vars

\* C15 happens: the backend answered the retry of the rehydrated SUCCESS
\* task with an error, and the task is as it was rehydrated
C15_ErrorAnswerToRetry ==
  /\ last.op = "retrySettled"
  /\ last.response = ErrorWrapper
  /\ FindTask(tasks, last.id) = LegacyTask

\* C16: when the submission of a new task fails, the step that ends it
\* takes the optimistic task out of the list and leaves the tasks that were
\* there before as they were, in their order; in a batch that is the task
\* of the file whose submission failed, and of no other file
C16_FailedSubmitRemovesOwnTask ==
  [][last'.op = "submitSettled" /\ last'.response \in Failures
       => /\ last'.id \notin IdsOf(tasks')
          /\ SelectSeq(tasks', LAMBDA task : task.id \in TaskIds)
               = SelectSeq(tasks, LAMBDA task : task.id # last'.id)]_vars

\* C16 happens: the submission of the first file of a batch failed, its task
\* is gone, the rehydrated task is as it was, and the task of the second
\* file is in the list with its submission in flight
C16_FirstFileOfBatchFailed ==
  /\ last.op = "submitSettled"
  /\ last.response \in Failures
  /\ last.id \in GoneIds
  /\ FindTask(tasks, LegacyTask.id) = LegacyTask
  /\ \E i \in 1..Len(flows) :
       /\ flows[i].values = BatchValues
       /\ flows[i].urls = <<>>
       /\ flows[i].id \in TaskIds

\* the tasks, as the snapshot of their tick holds them, whose lookup the step
\* sent: the first of a new tick, or the next of a tick that went on
SentLookups ==
  IF Len(ticks') > Len(ticks)
  THEN {ticks'[Len(ticks')].pendingTasks[1]}
  ELSE IF Len(ticks') = Len(ticks)
       THEN {ticks'[i].pendingTasks[ticks'[i].k] :
               i \in {j \in 1..Len(ticks) : ticks'[j].k # ticks[j].k}}
       ELSE {}

Terminal == {"SUCCESS", "FAILED"}

\* C17: the poller sends a lookup only for a task whose status in the store
\* is neither SUCCESS nor FAILED when the lookup is sent
C17_NoLookupOfTerminalTask ==
  [][\A task \in SentLookups :
       task.id \in IdsOf(tasks') => FindTask(tasks', task.id).status \notin Terminal]_vars

\* C19: at most one lookup of the poller is in flight at any time, also
\* when the timer fires before the loop of the previous tick has ended
C19_OneLookupInFlight == Len(ticks) <= 1

\* the ticks that sent their next lookup in the step
WentOn == {j \in 1..Len(ticks) : Len(ticks') = Len(ticks) /\ ticks'[j] # ticks[j]}

\* the step ended the lookup for the task: it threw, or it answered and the
\* answer, where it called for an update, is in the store
LookupEnded(task) ==
  \/ last' = LookupFailed(task.id) /\ tasks' = tasks
  \/ last' = Idle /\ tasks' = tasks
  \/ /\ last'.op = "updateTaskContent"
     /\ last'.id = task.id
     /\ tasks' = updateTaskContent(state, task.id, last'.data, verSeq, Date).tasks

\* C18: a tick looks up the tasks of its snapshot, which holds the waiting
\* tasks in the order of the list, one after the other: the lookup of the
\* next task is sent in the step that ends the lookup of the task before it,
\* after its answer has been applied
C18_LookupsInListOrder ==
  [][/\ Len(ticks') > Len(ticks)
          => LET tick == ticks'[Len(ticks')]
                 waiting == SelectSeq(tasks, LAMBDA task : task.status \notin Terminal)
             IN /\ ticks' = Append(ticks, tick)
                /\ tick.k = 1
                /\ Len(tick.pendingTasks) = Len(waiting)
                /\ \A n \in 1..Len(waiting) : tick.pendingTasks[n].id = waiting[n].id
     /\ Cardinality(WentOn) <= 1
     /\ \A j \in WentOn :
          /\ ticks'[j] = [ticks[j] EXCEPT !.k = @ + 1]
          /\ ticks'[j].k <= Len(ticks[j].pendingTasks)
          /\ LookupEnded(ticks[j].pendingTasks[ticks[j].k])]_vars

\* C18 happens: a tick over two tasks has had the answer to its first lookup
\* applied to the store, and its second lookup is in flight
C18_SecondLookupAfterFirstApplied ==
  /\ last.op = "updateTaskContent"
  /\ \E i \in 1..Len(ticks) :
       /\ ticks[i].k = 2
       /\ ticks[i].pendingTasks[1].id = last.id
       /\ ticks[i].pendingTasks[1].id = tasks[1].id
       /\ ticks[i].pendingTasks[2].id = tasks[2].id
       /\ tasks[1].status = last.data.status

\* the ticks that are waiting for the lookup of the task the step's failure
\* was about
FailedTicks == {i \in 1..Len(ticks) : ticks[i].pendingTasks[ticks[i].k].id = last'.id}

\* C20: when a lookup throws, the step leaves the store as it was, the tick
\* goes on to the next task of its snapshot if there is one, the task is in
\* the snapshot a timer tick would take next if it was before, and the timer
\* can fire again
C20_FailedLookupSkipsOnlyItself ==
  /\ [][last'.op = "lookupFailed"
         => /\ tasks' = tasks
            /\ \E i \in FailedTicks :
                 IF ticks[i].k < Len(ticks[i].pendingTasks)
                 THEN ticks' = [ticks EXCEPT ![i].k = @ + 1]
                 ELSE ticks' = RemoveAt(ticks, i)
            /\ \A n \in 1..Len(pendingTasks) :
                 pendingTasks[n].id = last'.id => pendingTasks' = pendingTasks]_vars
  /\ [](last.op = "lookupFailed" /\ reqSeq < budget
          => ENABLED (TimerFires /\ Leaves(Idle)))

\* C20 happens: the lookup of the first of two waiting tasks threw, the task
\* is still PENDING, and the tick is waiting for the lookup of the second
C20_SecondLookupAfterFailure ==
  /\ last.op = "lookupFailed"
  /\ last.id = tasks[1].id
  /\ tasks[1].status = "PENDING"
  /\ \E i \in 1..Len(ticks) :
       /\ ticks[i].k = 2
       /\ ticks[i].pendingTasks[1].id = last.id
       /\ ticks[i].pendingTasks[2].id = tasks[2].id

\* C22: the cleanup of the effect leaves the lookups in flight as they are;
\* once the interval is cleared no new tick starts: every tick in flight after
\* a step was in flight before it; a lookup in flight can still return; and
\* when it returns with a status other than the one its snapshot holds, the
\* store is what updateTaskContent makes of it, as before the cleanup
C22_TeardownKeepsLookups ==
  /\ [][/\ timer = "set" /\ timer' = "cleared" => ticks' = ticks /\ tasks' = tasks
        /\ timer = "cleared"
             => /\ timer' = "cleared"
                /\ \/ ticks' = ticks
                   \/ \E i \in 1..Len(ticks) :
                        \/ ticks' = RemoveAt(ticks, i)
                        \/ ticks' = [ticks EXCEPT ![i].k = @ + 1]
                /\ last'.op = "updateTaskContent"
                     => tasks' = updateTaskContent(state, last'.id, last'.data, verSeq, Date).tasks]_vars
  /\ [](timer = "cleared" /\ ticks # <<>> /\ reqSeq < budget
          => \A i \in 1..Len(ticks), resp \in LookupResponses :
               ENABLED (LookupReturns(i, resp) /\ UNCHANGED <<budget, timer>>))

\* C22 happens: after the cleanup a lookup that was in flight returned
\* SUCCESS with a result for a task the store held as PENDING, and the task
\* is SUCCESS with the result as its version
C22_AppliedAfterTeardown ==
  /\ timer = "cleared"
  /\ last.op = "updateTaskContent"
  /\ last.data.status = "SUCCESS"
  /\ FindTask(tasks, last.id).status = "SUCCESS"
  /\ IsArray(FindTask(tasks, last.id).markdown)

\* C23: an answer whose status is the one the store records for the task when
\* the answer is applied changes nothing, whatever status the tick's snapshot
\* holds: the store changes in a lookup's step only if the answer's status
\* differs from the recorded one
C23_SameStatusChangesNothing ==
  [][/\ last'.op = "updateTaskContent"
     /\ FindTask(tasks, last'.id) # Undefined
     /\ last'.data.status = FindTask(tasks, last'.id).status
     => tasks' = tasks /\ verSeq' = verSeq /\ applied' = applied]_vars

\* C23 happens: a tick that took the task as PENDING got SUCCESS with body B
\* when another tick's answer had already made the task SUCCESS with body A,
\* and the task holds the one version of body A
C23_LateSuccessOnSuccess ==
  /\ last.op = "updateTaskContent"
  /\ last.data.status = "SUCCESS"
  /\ last.data.markdown = Str(<<"B">>)
  /\ LET task == FindTask(tasks, last.id)
     IN /\ task.status = "SUCCESS"
        /\ IsArray(task.markdown)
        /\ bodiesOf(task.markdown.arr) = <<Str(<<"A">>)>>

\* the text after the last slash of a string, the whole string when it has no
\* slash
AfterLastSlash(u) == Str(SubSeq(u.str, LastIndexOf(u.str, "/") + 1, Len(u.str)))

\* the first of the values that is a non-empty string, the placeholder when
\* none is
FirstNonEmpty(values) ==
  LET full == SelectSeq(values, Truthy)
  IN IF full = <<>> THEN Placeholder ELSE full[1]

\* the title the sentence of C24 gives for submission parameters
TitleByRule(formData) ==
  LET url == Field(formData, "video_url")
  IN FirstNonEmpty(<< IF Truthy(url) THEN StripExtension(AfterLastSlash(url)) ELSE EmptyString,
                      Field(formData, "title"),
                      Field(formData, "model_name") >>)

\* C24: the task addPendingTask has just added is titled by the last path
\* segment of video_url without its final extension when video_url is present,
\* else by the explicit title, else by model_name, and by the placeholder when
\* none of these is a non-empty string; for "https://x.test/my-video.mp4" and
\* no explicit title the title is "my-video"
C24_TitleFromLastSegment ==
  last.op = "addPendingTask"
    => /\ tasks[1].id = last.id
       /\ tasks[1].audioMeta.title = TitleByRule(last.formData)
       /\ Field(last.formData, "video_url") = Url1
            => tasks[1].audioMeta.title = Str(<<"my-video">>)

\* C24 happens: a task was added for the URL of the example
C24_ExampleAdded ==
  /\ last.op = "addPendingTask"
  /\ Field(last.formData, "video_url") = Url1
  /\ Field(last.formData, "title") = Undefined
  /\ tasks[1].audioMeta.title = Str(<<"my-video">>)

\* C25: the list holds the tasks most recently created first: of two tasks
\* the one nearer the head has the id issued later and the later createdAt,
\* whatever was added, updated, retried, removed or normalized since
C25_NewestFirst ==
  \A i, j \in 1..Len(tasks) :
    i < j => /\ tasks[i].id.uuid > tasks[j].id.uuid
             /\ tasks[i].createdAt > tasks[j].createdAt

\* C25 happens: the older of two tasks got a version from the poller after
\* the newer one was added, and is still behind it
C25_OlderUpdatedStaysBehind ==
  /\ Len(tasks) >= 2
  /\ IsArray(tasks[2].markdown)
  /\ tasks[2].markdown.arr[1].created_at > tasks[1].createdAt

\* the audioMeta of a task without its title
Untitled(meta) ==
  IF meta = Undefined THEN EmptyObject ELSE [k \in DOMAIN meta \ {"title"} |-> meta[k]]

\* the step applied a SUCCESS update of the poller to the task
SuccessUpdated(id) == PollerUpdated(id) /\ last'.data.status = "SUCCESS"

\* C26: the transcript of a task changes only in a step that applies a poller
\* update with status SUCCESS to it; every other step a task lives through
\* (a poller update with FAILED or a waiting status, retryTask,
\* normalizeTitles, calls for other tasks) leaves its transcript, its
\* markdown and its audioMeta apart from the title as they are
C26_NoteChangesOnlyOnSuccess ==
  [][tasks' # tasks
     => \A i \in 1..Len(tasks), j \in 1..Len(tasks') :
          /\ tasks[i].id = tasks'[j].id
          /\ tasks[i] # tasks'[j]
          /\ ~SuccessUpdated(tasks[i].id)
          => /\ tasks'[j].transcript = tasks[i].transcript
             /\ tasks'[j].markdown = tasks[i].markdown
             /\ Untitled(tasks'[j].audioMeta) = Untitled(tasks[i].audioMeta)]_vars

\* C26 happens: the poller applied FAILED to a task that holds a transcript
\* and a version, and the task holds them still
C26_FailedKeepsNote ==
  /\ last.op = "updateTaskContent"
  /\ last.data.status = "FAILED"
  /\ LET task == FindTask(tasks, last.id)
     IN /\ task # Undefined
        /\ task.status = "FAILED"
        /\ task.transcript = BackendTranscript
        /\ IsArray(task.markdown)

\* C27: a step changes the record of a task that is in the store before and
\* after it only by applying a poller update to it, by the set() of retryTask
\* (status PENDING, formData replaced, all else kept) or by normalizeTitles
\* (the title of audioMeta, all else kept); a step that adds a task or
\* removes one leaves every other record as it is, and a step that only
\* moves the selection leaves the list as it is
C27_RecordChangers ==
  [][/\ tasks' # tasks
          => \A i \in 1..Len(tasks), j \in 1..Len(tasks') :
               tasks[i].id = tasks'[j].id /\ tasks[i] # tasks'[j]
                 => /\ uuidSeq' = uuidSeq
                    /\ Len(tasks') = Len(tasks)
                    /\ \/ PollerUpdated(tasks[i].id)
                       \/ /\ Len(retries') < Len(retries)
                          /\ tasks'[j] = Spread(tasks[i], [ formData |-> tasks'[j].formData,
                                                            status |-> "PENDING" ])
                       \/ /\ tasks' = normalizeTitles(state).tasks
                          /\ tasks'[j] = Spread(tasks[i], [audioMeta |-> tasks'[j].audioMeta])
                          /\ Untitled(tasks'[j].audioMeta) = Untitled(tasks[i].audioMeta)
     /\ currentTaskId' # currentTaskId /\ uuidSeq' = uuidSeq /\ Len(tasks') = Len(tasks)
          => tasks' = tasks]_vars

\* C27 happens: a task was added while an older one held a note, and the
\* older record is as the poller left it
C27_AddedBesideNote ==
  /\ Len(tasks) >= 2
  /\ tasks[1].status = "PENDING"
  /\ tasks[1].createdAt > tasks[2].createdAt
  /\ IsArray(tasks[2].markdown)
  /\ tasks[2].status = "SUCCESS"
  /\ tasks[2].markdown.arr[1].created_at < tasks[1].createdAt

\* the step applied the patch to the task: the status and every other field
\* of the patch are the task's, a markdown string is the content of a new
\* first version in front of the versions held before, and the fields the
\* patch does not carry are as they were
Applies(data, before, after) ==
  /\ after.status = data.status
  /\ \A k \in DOMAIN data \ {"markdown"} : after[k] = data[k]
  /\ \A k \in DOMAIN before \ DOMAIN data : after[k] = before[k]
  /\ "markdown" \in DOMAIN data
       => IF IsString(data.markdown)
          THEN /\ IsArray(after.markdown)
               /\ after.markdown.arr[1].content = data.markdown
               /\ IsArray(before.markdown) => Tail(after.markdown.arr) = before.markdown.arr
          ELSE after.markdown = data.markdown

\* C28: unless the task is SUCCESS and the patch says SUCCESS, an
\* updateTaskContent call applies the status and the fields of its patch
\* whatever status the task has; a SUCCESS patch with a markdown string for a
\* FAILED task makes the task SUCCESS with the string as its first version
C28_AppliesUnlessBothSuccess ==
  [][\A id \in TaskIds :
       PollerUpdated(id) /\ ~(Before(id).status = "SUCCESS" /\ last'.data.status = "SUCCESS")
         => /\ Applies(last'.data, Before(id), After(id))
            /\ Before(id).status = "FAILED" /\ PlainMarkdown(last'.data)
                 => /\ After(id).status = "SUCCESS"
                    /\ After(id).markdown.arr[1].content = last'.data.markdown]_vars

\* C28 happens: the poller's patch put a task that holds a version, so had
\* been SUCCESS, to FAILED
C28_FailedOverNote ==
  /\ last.op = "updateTaskContent"
  /\ last.data.status = "FAILED"
  /\ FindTask(tasks, last.id).status = "FAILED"
  /\ IsArray(FindTask(tasks, last.id).markdown)

\* the statuses the frontend knows
KnownStatuses == {"PENDING", "RUNNING", "SUCCESS", "FAILED"}

\* C29: a status the frontend does not know, answered for a task whose
\* snapshot holds another status, becomes the task's status as it is; and a
\* task with such a status is in the snapshot the next tick takes, with that
\* status, and the timer can fire while requests are left
C29_UnknownStatusKeptAndPolled ==
  /\ [][\A id \in TaskIds :
          PollerUpdated(id) /\ last'.data.status \notin KnownStatuses
            => After(id).status = last'.data.status]_vars
  /\ [](\A i \in 1..Len(tasks) :
          tasks[i].status \notin KnownStatuses
            => /\ \E n \in 1..Len(pendingTasks) :
                    pendingTasks[n] = [id |-> tasks[i].id, status |-> tasks[i].status]
               /\ reqSeq < budget => ENABLED (TimerFires /\ Leaves(Idle)))

\* C29 happens: a task has the status PARSING, and a tick that took it with
\* that status has its lookup in flight
C29_ParsingLookedUpAgain ==
  \E i \in 1..Len(ticks) :
    LET task == ticks[i].pendingTasks[ticks[i].k]
    IN /\ task.status = "PARSING"
       /\ FindTask(tasks, task.id).status = "PARSING"

\* C30: a removeTask(id) call for a task of the store removes the task and
\* issues one deletion request, which carries the video_id of the task's
\* audioMeta and the task's platform as they were before the call; a call for
\* an id that no task has issues no request and leaves the store as it is
C30_OneDeletionPerRemoval ==
  [][last'.op = "removeTask"
     => LET task == FindTask(tasks, last'.id)
        IN IF task # Undefined
           THEN /\ FindTask(tasks', last'.id) = Undefined
                /\ reqSeq' = reqSeq + 1
                /\ \E request \in deletes' \ deletes :
                     /\ deletes' = deletes \cup {request}
                     /\ request.video_id = Field(task.audioMeta, "video_id")
                     /\ request.platform = task.platform
           ELSE /\ reqSeq' = reqSeq
                /\ deletes' = deletes
                /\ tasks' = tasks
                /\ currentTaskId' = currentTaskId]_vars

\* C30 happens: removeTask was called for the legacy note, the note is gone
\* and the request to delete BV1 on bilibili is on its way
C30_LegacyNoteRemoved ==
  /\ last = Removed(uuidv4(1))
  /\ FindTask(tasks, uuidv4(1)) = Undefined
  /\ \E request \in deletes :
       request.video_id = Str(<<"BV1">>) /\ request.platform = "bilibili"

\* C31: past the early return for SUCCESS on SUCCESS, an updateTaskContent
\* call whose patch carries no markdown string (none, undefined, or a list)
\* builds no version: the task is the patch's fields merged over the task's,
\* and no version id is drawn
C31_MergeWithoutVersion ==
  [][\A id \in TaskIds :
       PollerUpdated(id) /\ ~PlainMarkdown(last'.data) /\ ~AlreadySuccess(Before(id), last'.data)
         => /\ After(id) = Spread(Before(id), last'.data)
            /\ verSeq' = verSeq]_vars

\* C31 happens: a patch whose markdown is a list was applied to the task that
\* held versions of its own, and the task holds the patch's list
C31_ListMerged ==
  /\ last.op = "updateTaskContent"
  /\ last.data = [status |-> "RUNNING", markdown |-> ListedMarkdown]
  /\ last.id = uuidv4(1)
  /\ tasks = <<Spread(RetriedTask, last.data)>>

\* C32: retryTask can be called for every task of the store whatever its
\* status, while requests are left; the call submits the task's id to the
\* backend and leaves the list as it is; and the step in which a retry's
\* submission ends changes a task only by setting it to PENDING
C32_RetryWhateverStatus ==
  /\ [](\A i \in 1..Len(tasks) :
          reqSeq < budget => ENABLED (RetryTask(tasks[i].id, Undefined) /\ Leaves(Idle)))
  /\ [][Len(retries') > Len(retries)
          => LET call == retries'[Len(retries')]
             IN /\ call.data.task_id = call.id
                /\ FindTask(tasks, call.id) # Undefined
                /\ tasks' = tasks]_vars
  /\ [][Len(retries') < Len(retries)
          => \A i \in 1..Len(tasks) :
               tasks'[i] # tasks[i] => tasks'[i].status = "PENDING"]_vars

\* C32 happens: two submissions of retryTask for the same task are
\* outstanding, and the task is RUNNING
C32_TwoRetriesOutstanding ==
  \E i, j \in 1..Len(retries) :
    /\ i < j
    /\ retries[i].data.task_id = retries[j].data.task_id
    /\ FindTask(tasks, retries[i].id).status = "RUNNING"

\* C33: the store starts as persist rehydrates it, with nothing migrated: a
\* task rehydrated with a legacy markdown string holds that string as long as
\* no update with a markdown string has been applied to it, and every task
\* that is neither SUCCESS nor FAILED is in the snapshot the next tick takes
C33_RehydratedAsPersisted ==
  \A i \in 1..Len(tasks) :
    /\ applied[tasks[i].id].legacy /\ applied[tasks[i].id].n = 0
         => tasks[i].markdown = applied[tasks[i].id].bodies[1]
    /\ tasks[i].status \notin Terminal
         => \E n \in 1..Len(pendingTasks) : pendingTasks[n].id = tasks[i].id

\* C33 happens: the rehydrated legacy note was retried and is PENDING, still
\* with its markdown string, and a tick has its lookup in flight
C33_LegacyNoteLookedUp ==
  /\ Len(tasks) = 1
  /\ tasks[1].markdown = Str(<<"old">>)
  /\ tasks[1].status = "PENDING"
  /\ \E i \in 1..Len(ticks) : awaited(i) = tasks[1].id

\* C34: a task that has left the list, by removeTask or by clearTasks, is in
\* no later list: the result of a lookup and the end of a retry's submission
\* that come for its id leave the list as it is
C34_GoneStaysGone ==
  [][/\ \A id \in GoneIds : id \notin IdsOf(tasks')
     /\ last'.op \in {"updateTaskContent", "retrySettled"} /\ last'.id \in GoneIds
          => tasks' = tasks]_vars

\* C34 happens: the result of a lookup was passed to updateTaskContent for a
\* task that had been removed, and the list is without it
C34_ResultAfterRemoval ==
  /\ last.op = "updateTaskContent"
  /\ last.id \in GoneIds
  /\ Len(tasks) = 1

\* C35: reconciliation adds no more versions to a task than the backend
\* accepted submissions for it; where nothing is retried that is the one
\* submission the task came from, so no task gets a second version
C35_OneVersionPerSubmission ==
  \A id \in TaskIds : applied[id].n <= 1

\* C36: the markdown of every task is a string (empty or not) or a list of
\* versions, and its transcript and audioMeta are defined
C36_ContentWellFormed ==
  \A i \in 1..Len(tasks) :
    /\ IsString(tasks[i].markdown) \/ IsArray(tasks[i].markdown)
    /\ tasks[i].transcript # Undefined
    /\ tasks[i].audioMeta # Undefined

\* C37: currentTaskId is null or the id of a task of the list, and
\* getCurrentTask returns that task, or null when nothing is selected
C37_SelectionInList ==
  /\ currentTaskId = Null \/ currentTaskId \in TaskIds
  /\ getCurrentTask(state) = IF currentTaskId = Null THEN Null
                             ELSE FindTask(tasks, currentTaskId)
  /\ getCurrentTask(state) # Undefined

\* C37 happens: after a removal the selection is on a task of the list that
\* is not the newest, and getCurrentTask returns it
C37_OlderTaskSelected ==
  /\ GoneIds # {}
  /\ Len(tasks) >= 2
  /\ currentTaskId = tasks[2].id
  /\ getCurrentTask(state) = tasks[2]

\* the step was an updateTaskContent call of the poller, or the end of a
\* retry's submission that the backend accepted
SingleTaskWrite ==
  \/ last'.op = "updateTaskContent"
  \/ last'.op = "retrySettled" /\ last'.response \in Accepted

\* C38: updateTaskContent(id, patch) and a retryTask(id) whose submission was
\* accepted change at most the task with that id: the list keeps its length
\* and its order, every other task and the selection stay as they were, and
\* with no task of that id the list is unchanged
C38_SingleTaskFrame ==
  [][SingleTaskWrite
       => /\ Len(tasks') = Len(tasks)
          /\ \A i \in 1..Len(tasks) :
               /\ tasks'[i].id = tasks[i].id
               /\ tasks[i].id # last'.id => tasks'[i] = tasks[i]
          /\ currentTaskId' = currentTaskId
          /\ last'.id \notin TaskIds => tasks' = tasks]_vars

\* C38 happens: the retry of one task was accepted while the other task,
\* finished and selected, is as the poller left it
C38_RetryBesideFinishedTask ==
  /\ last.op = "retrySettled"
  /\ last.response \in Accepted
  /\ Len(tasks) = 2
  /\ \E i \in 1..2 :
       /\ tasks[i].id = last.id
       /\ tasks[i].status = "PENDING"
       /\ tasks[3 - i].status = "SUCCESS"
       /\ currentTaskId = tasks[3 - i].id

\* C39: a retryTask whose submission was accepted changes the status and the
\* formData of its task and no other field: id, createdAt, platform, the
\* markdown with all its versions, transcript and audioMeta stay as they were
C39_RetryKeepsRecord ==
  [][last'.op = "retrySettled" /\ last'.response \in Accepted /\ tasks' # tasks
       => \A i \in 1..Len(tasks) :
            tasks[i].id = last'.id
              => /\ DOMAIN tasks'[i] = DOMAIN tasks[i]
                 /\ \A key \in DOMAIN tasks[i] \ {"status", "formData"} :
                      tasks'[i][key] = tasks[i][key]
                 /\ tasks'[i].id = tasks[i].id
                 /\ tasks'[i].createdAt = tasks[i].createdAt
                 /\ tasks'[i].platform = tasks[i].platform
                 /\ tasks'[i].markdown = tasks[i].markdown
                 /\ tasks'[i].transcript = tasks[i].transcript
                 /\ tasks'[i].audioMeta = tasks[i].audioMeta]_vars

\* C39 happens: a finished task with a version was retried with other
\* parameters and the retry was accepted; it is PENDING with the new
\* parameters and holds the version made with the old ones
C39_RetriedWithVersion ==
  /\ last.op = "retrySettled"
  /\ last.response \in Accepted
  /\ \E i \in 1..Len(tasks) :
       /\ tasks[i].id = last.id
       /\ tasks[i].status = "PENDING"
       /\ IsArray(tasks[i].markdown)
       /\ Len(tasks[i].markdown.arr) = 1
       /\ tasks[i].markdown.arr[1].style # tasks[i].formData.style
       /\ tasks[i].transcript = BackendTranscript
       /\ tasks[i].audioMeta = BackendAudioMeta

\* the title normalizeTitles reads from a task: empty when the task has no
\* audioMeta or no title
TitleOf(t) ==
  IF t.audioMeta = Undefined \/ ~Truthy(Field(t.audioMeta, "title")) THEN EmptyString
  ELSE t.audioMeta.title

\* C40: normalizeTitles changes nothing but the title in audioMeta, and that
\* only of tasks whose title is empty or the model name and that have a
\* video_url; status, markdown, createdAt, the order of the list and the
\* selection stay as they were, and a second call changes nothing more
C40_NormalizeTitlesFrame ==
  [][last'.op = "normalizeTitles"
       => /\ Len(tasks') = Len(tasks)
          /\ currentTaskId' = currentTaskId
          /\ \A i \in 1..Len(tasks) :
               /\ tasks'[i] = Spread(tasks[i], [audioMeta |-> tasks'[i].audioMeta])
               /\ Untitled(tasks'[i].audioMeta) = Untitled(tasks[i].audioMeta)
               /\ tasks'[i].id = tasks[i].id
               /\ tasks'[i].status = tasks[i].status
               /\ tasks'[i].markdown = tasks[i].markdown
               /\ tasks'[i].createdAt = tasks[i].createdAt
               /\ tasks'[i] # tasks[i]
                    => /\ \/ TitleOf(tasks[i]) = EmptyString
                          \/ TitleOf(tasks[i]) = Field(tasks[i].formData, "model_name")
                       /\ Truthy(Field(tasks[i].formData, "video_url"))
          /\ normalizeTitles([tasks |-> tasks', currentTaskId |-> currentTaskId']).tasks
               = tasks']_vars

\* C40 happens: of two notes titled with the model name, the selected one
\* that has a video_url was renamed after its file and the one without kept
\* its title
C40_OneOfTwoRenamed ==
  /\ last.op = "normalizeTitles"
  /\ Len(tasks) = 2
  /\ currentTaskId = tasks[1].id
  /\ tasks[1].audioMeta.title = Str(<<"my-video">>)
  /\ tasks[1].formData.model_name = Str(<<"gpt">>)
  /\ tasks[2].formData = BatchValues
  /\ tasks[2].audioMeta.title = Str(<<"gpt">>)

\* the status the backend ends on for that task
FinalStatus(id) == (CHOOSE resp \in FinalAnswers(id) : TRUE).status

\* C21: with the poller running and no task removed, if from some point on
\* every answer of the backend is its final one (SUCCESS for one task, FAILED
\* for the other) and lookups keep returning, each task's status in the store
\* becomes that final status and, no retry occurring, stays it
C21_EventuallyTerminal ==
  <>[][~EarlyReturn]_vars
    => \A id \in IdsOf(WaitingTasks) : <>[](FindTask(tasks, id).status = FinalStatus(id))

\* C21 happens: both tasks have the backend's final status, the first for
\* the second time: a late early answer had put it back to a waiting status
\* and the next tick's lookup applied the result again, as a second version
C21_BothTerminalAgain ==
  /\ last.op = "updateTaskContent"
  /\ last.id = uuidv4(1)
  /\ IsArray(FindTask(tasks, uuidv4(1)).markdown)
  /\ Len(FindTask(tasks, uuidv4(1)).markdown.arr) = 2
  /\ \A id \in IdsOf(WaitingTasks) : FindTask(tasks, id).status = FinalStatus(id)

====
